---- MODULE Spec2Model ----
(***************************************************************************)
(* Gateway / Products / Orders microservices.                              *)
(*                                                                         *)
(* The product store (products/dependencies.py, StorageWrapper) is a Redis *)
(* hash per product, keyed 'products:<id>'.  The gateway                   *)
(* (gateway/service.py) validates HTTP payloads and calls the Products and *)
(* Orders services over RPC.                                               *)
(*                                                                         *)
(* Text is a sequence of code points, stored bytes are a sequence of byte  *)
(* values, so that encoding on write and decoding on read are computed.    *)
(***************************************************************************)
EXTENDS Integers, Sequences, FiniteSets, TLC

VARIABLES
    client,     \* the Redis keyspace: key -> hash (field -> bytes); absent keys are not in the domain
    last,       \* SpecStore, SpecList: the last StorageWrapper call, [op, arg, res]
    before,     \* SpecStore, SpecList: the keyspace before the last StorageWrapper call;
                \* SpecDecrement, SpecOrders: the keyspace before the run
    deleted,    \* SpecStore: the ids deleted and not created since
    workers,    \* the workers, one request (or one StorageWrapper call) each at a time
    orders,     \* the orders the Orders service has persisted, oldest first
    served      \* the number of HTTP requests the gateway has accepted

vars == <<client, last, before, deleted, workers, orders, served>>

----------------------------------------------------------------------------
(* Bounds of the model *)

\* longest id sequence passed to find_order_details_by_id / longest order_details
MaxLines == 3
\* decrement_stock is not taken once it would bring in_stock below -StockFloor
StockFloor == 5
\* gateway workers that handle requests concurrently
NumWorkers == 2
\* HTTP requests the gateway accepts in one run
MaxRequests == 2

----------------------------------------------------------------------------
(* Values *)

\* 'a', 'b'
ProductIds == {<<97>>, <<98>>}
\* (title, in_stock) of the products that are created: 'LZ' with 11 in stock,
\* and U+00E9 (two bytes in UTF-8) with none
Variants == {<<(<<76, 90>>), 11>>, <<(<<233>>), 0>>}
Amounts == {4}

Products ==
    {[id |-> i, title |-> v[1], passenger_capacity |-> 50,
      maximum_speed |-> 135, in_stock |-> v[2]] : i \in ProductIds, v \in Variants}

RECURSIVE SeqsUpTo(_, _)
SeqsUpTo(S, n) ==
    IF n = 0 THEN {<<>>}
    ELSE LET shorter == SeqsUpTo(S, n - 1)
         IN  shorter \cup {Append(s, x) : s \in {t \in shorter : Len(t) = n - 1}, x \in S}

IdSeqs == SeqsUpTo(ProductIds, MaxLines)

NoId == <<>>

----------------------------------------------------------------------------
(* Encoding: what redis-py writes for str and int values, and what          *)
(* _from_hash reads back with .decode('utf-8') and int().                   *)

RECURSIVE Utf8Encode(_)
Utf8Encode(s) ==
    IF s = <<>> THEN <<>>
    ELSE LET cp == Head(s)
         IN  (IF cp < 128 THEN <<cp>>
              ELSE <<192 + (cp \div 64), 128 + (cp % 64)>>) \o Utf8Encode(Tail(s))

\* the bytes read as Latin-1: one character per byte
Latin1Decode(b) == b

RECURSIVE Utf8Decode(_)
Utf8Decode(b) ==
    IF b = <<>> THEN <<>>
    ELSE IF Head(b) < 128 THEN <<Head(b)>> \o Utf8Decode(Tail(b))
    ELSE <<(Head(b) - 192) * 64 + (b[2] - 128)>> \o Utf8Decode(Tail(Tail(b)))

RECURSIVE NatToBytes(_)
NatToBytes(n) ==
    IF n < 10 THEN <<48 + n>> ELSE Append(NatToBytes(n \div 10), 48 + (n % 10))

IntToBytes(n) == IF n < 0 THEN <<45>> \o NatToBytes(-n) ELSE NatToBytes(n)

RECURSIVE DigitsToNat(_)
DigitsToNat(b) ==
    IF b = <<>> THEN 0
    ELSE 10 * DigitsToNat(SubSeq(b, 1, Len(b) - 1)) + (b[Len(b)] - 48)

BytesToInt(b) == IF Head(b) = 45 THEN -DigitsToNat(Tail(b)) ELSE DigitsToNat(b)

StrFields == {"id", "title"}
ProductFields == <<"id", "title", "passenger_capacity", "maximum_speed", "in_stock">>

EncodeField(f, v) == IF f \in StrFields THEN Utf8Encode(v) ELSE IntToBytes(v)

----------------------------------------------------------------------------
(* StorageWrapper, as functions of the keyspace c *)

\* 'products:'
KeyPrefix == <<112, 114, 111, 100, 117, 99, 116, 115, 58>>

format_key(product_id) == KeyPrefix \o product_id

EmptyHash == <<>>

\* HGETALL: the hash at key, empty when the key does not exist
hgetall(c, key) == IF key \in DOMAIN c THEN c[key] ELSE EmptyHash

Ok(v) == [id |-> NoId, exc |-> "none", value |-> v]
Raise(e, msg, pid) == [id |-> pid, exc |-> e, value |-> msg]

\* the first field of a product that the hash lacks, 0 when it has them all
MissingField(document) ==
    LET miss == {i \in 1..Len(ProductFields) : ProductFields[i] \notin DOMAIN document}
    IN  IF miss = {} THEN 0 ELSE CHOOSE i \in miss : \A j \in miss : i <= j

from_hash(document) ==
    IF MissingField(document) # 0
    THEN Raise("KeyError", ProductFields[MissingField(document)], NoId)
    ELSE Ok([id                 |-> Utf8Decode(document["id"]),
             title              |-> Utf8Decode(document["title"]),
             passenger_capacity |-> BytesToInt(document["passenger_capacity"]),
             maximum_speed      |-> BytesToInt(document["maximum_speed"]),
             in_stock           |-> BytesToInt(document["in_stock"])])

\* get without the test for an empty hash
get_unchecked(c, product_id) ==
    [res |-> from_hash(hgetall(c, format_key(product_id))), keyspace |-> c]

\* every method gives its result (a value or the exception raised) and the
\* keyspace it leaves
get(c, product_id) ==
    LET product == hgetall(c, format_key(product_id))
    IN  [res |-> IF DOMAIN product = {}
                 THEN Raise("NotFound", "Product ID does not exist", product_id)
                 ELSE from_hash(product),
         keyspace |-> c]

\* HSETNX for each field: a field the hash already has keeps its value
hmset_nx(c, key, mapping) ==
    LET old == IF key \in DOMAIN c THEN c[key] ELSE <<>>
        new == [f \in DOMAIN old \cup DOMAIN mapping |->
                  IF f \in DOMAIN old THEN old[f]
                  ELSE IF f \in {"id", "title"} THEN Utf8Encode(mapping[f])
                  ELSE IntToBytes(mapping[f])]
    IN  [k \in DOMAIN c \cup {key} |-> IF k = key THEN new ELSE c[k]]

\* HMSET: sets the given fields of the hash at key, creating it; other fields stay
hmset(c, key, mapping) ==
    LET old == hgetall(c, key)
        new == [f \in DOMAIN old \cup DOMAIN mapping |->
                  IF f \in DOMAIN mapping THEN EncodeField(f, mapping[f]) ELSE old[f]]
    IN  [k \in DOMAIN c \cup {key} |-> IF k = key THEN new ELSE c[k]]

None == <<>>

create(c, product) ==
    [res |-> Ok(None), keyspace |-> hmset(c, format_key(product.id), product)]

\* the products of results[i..], skipping the empty results; a KeyError of
\* _from_hash ends the loop
RECURSIVE DecodeResults(_, _, _)
DecodeResults(results, i, products) ==
    IF i > Len(results) THEN Ok(products)
    ELSE IF DOMAIN results[i] = {} THEN DecodeResults(results, i + 1, products)
    ELSE LET p == from_hash(results[i])
         IN  IF p.exc # "none" THEN p
             ELSE DecodeResults(results, i + 1, Append(products, p.value))

find_order_details_by_id(c, orders_id) ==
    LET keys     == [i \in 1..Len(orders_id) |-> format_key(orders_id[i])]
        results  == [i \in 1..Len(keys) |-> hgetall(c, keys[i])]
        products == DecodeResults(results, 1, <<>>)
    IN  [res |-> IF products.exc # "none" THEN products
                 ELSE IF products.value = <<>>
                 THEN Raise("NotFound", "No products found for the given IDs.", NoId)
                 ELSE products,
         keyspace |-> c]

\* DEL: the keyspace without key, and the number of keys removed
del(c, key) ==
    [keyspace |-> [k \in DOMAIN c \ {key} |-> c[k]],
     removed  |-> IF key \in DOMAIN c THEN 1 ELSE 0]

delete(c, product_id) ==
    LET done   == del(c, format_key(product_id))
        result == done.removed
    IN  [res |-> IF result = 0
                 THEN Raise("NotFound", "Product ID does not exist", product_id)
                 ELSE Ok(result),
         keyspace |-> done.keyspace]

\* HSET of the amount: the value the field had is not read
hincrby_overwrite(c, key, field, amount) ==
    LET old == IF key \in DOMAIN c THEN c[key] ELSE <<>>
        new == [f \in DOMAIN old \cup {field} |->
                  IF f = field THEN IntToBytes(amount) ELSE old[f]]
    IN  [value    |-> amount,
         keyspace |-> [k \in DOMAIN c \cup {key} |-> IF k = key THEN new ELSE c[k]]]

\* HINCRBY: a missing key or field counts as 0 and is created
hincrby(c, key, field, amount) ==
    LET old   == hgetall(c, key)
        value == (IF field \in DOMAIN old THEN BytesToInt(old[field]) ELSE 0) + amount
        new   == [f \in DOMAIN old \cup {field} |->
                    IF f = field THEN IntToBytes(value) ELSE old[f]]
    IN  [value    |-> value,
         keyspace |-> [k \in DOMAIN c \cup {key} |-> IF k = key THEN new ELSE c[k]]]

\* the amount added to the stock instead of taken from it
decrement_stock_added(c, product_id, amount) ==
    LET incremented == hincrby(c, format_key(product_id), "in_stock", amount)
    IN  [res |-> Ok(incremented.value), keyspace |-> incremented.keyspace]

decrement_stock(c, product_id, amount) ==
    LET incremented == hincrby(c, format_key(product_id), "in_stock", -amount)
    IN  [res |-> Ok(incremented.value), keyspace |-> incremented.keyspace]

----------------------------------------------------------------------------
(* Gateway workers *)

Workers == 1..NumWorkers

NoRpc == [service |-> "none", method |-> "none", args |-> None]

\* a worker between requests.  rpcs is the history of the request's RPCs, and
\* absent the requested ids that had no key in the store when its lookup ran
Idle ==
    [pc |-> "idle", handler |-> "none", request |-> None, call |-> NoRpc,
     reply |-> Ok(None), rpcs |-> <<>>, absent |-> {}, response |-> Ok(None)]

----------------------------------------------------------------------------
(* SpecStore: the StorageWrapper's methods, called one at a time in any order *)

NoCall == [res |-> Ok(None), op |-> "none", arg |-> NoId]

InitStore ==
    /\ client = <<>>
    /\ last = NoCall
    /\ before = <<>>
    /\ deleted = {}
    /\ workers = [w \in Workers |-> Idle]
    /\ orders = <<>>
    /\ served = 0

\* one call of a method: `out` is what the method gives on the current keyspace
StoreCall(op, arg, out) ==
    /\ last' = [res |-> out.res, op |-> op, arg |-> arg]
    /\ before' = client
    /\ client' = out.keyspace
    /\ deleted' = IF op = "delete" /\ out.res.exc = "none" THEN deleted \cup {arg}
                  ELSE IF op = "create" THEN deleted \ {arg.id}
                  ELSE deleted
    /\ UNCHANGED <<workers, orders, served>>

StoreGet ==
    \E product_id \in ProductIds :
        StoreCall("get", product_id, get(client, product_id))

StoreCreate ==
    \E product \in Products :
        StoreCall("create", product, create(client, product))

StoreFind ==
    \E orders_id \in IdSeqs :
        StoreCall("find_order_details_by_id", orders_id,
                  find_order_details_by_id(client, orders_id))

StoreDelete ==
    \E product_id \in ProductIds :
        StoreCall("delete", product_id, delete(client, product_id))

StoreDecrement ==
    \E product_id \in ProductIds, amount \in Amounts :
        /\ decrement_stock(client, product_id, amount).res.value >= -StockFloor
        /\ StoreCall("decrement_stock", <<product_id, amount>>,
                     decrement_stock(client, product_id, amount))

NextStore ==
    \/ StoreGet
    \/ StoreCreate
    \/ StoreFind
    \/ StoreDelete
    \/ StoreDecrement

SpecStore == InitStore /\ [][NextStore]_vars

----------------------------------------------------------------------------
(* HTTP request bodies: <<>> when the text is not JSON, else <<document>> *)

NotJson == <<>>

OrderLine(product_id) == [product_id |-> product_id, price |-> "5.99", quantity |-> 1]
\* a line without its product_id
InvalidLine == [price |-> "5.99", quantity |-> 1]

\* not JSON; JSON without order_details; JSON with a line that lacks a field;
\* and the valid documents, one line per id of an id sequence
OrderBodies ==
    {NotJson, <<[note |-> "none"]>>, <<[order_details |-> <<OrderLine(<<97>>), InvalidLine>>]>>}
        \cup {<<[order_details |-> [i \in 1..Len(ids) |-> OrderLine(ids[i])]]>> : ids \in IdSeqs}

\* a product without its numeric fields
InvalidProduct == [id |-> <<97>>, title |-> <<76, 90>>]
ProductBodies == {NotJson} \cup {<<InvalidProduct>>} \cup {<<p>> : p \in Products}

----------------------------------------------------------------------------
(* The gateway's schemas: validation on load, serialization on dump *)

Decimal(text) == <<"Decimal", text>>
as_string(decimal) == decimal[2]

OrderLineFields == {"product_id", "price", "quantity"}

CreateOrderSchema_loads(body) ==
    IF Len(body) = 0 THEN Raise("ValueError", "Invalid json", NoId)
    ELSE LET document == body[1]
         IN  IF "order_details" \notin DOMAIN document
             THEN Raise("ValidationError", "Missing data for required field.", NoId)
             ELSE IF \E i \in 1..Len(document.order_details) :
                        ~(OrderLineFields \subseteq DOMAIN document.order_details[i])
             THEN Raise("ValidationError", "Missing data for required field.", NoId)
             ELSE Ok([order_details |->
                        [i \in 1..Len(document.order_details) |->
                           [product_id |-> document.order_details[i].product_id,
                            price      |-> Decimal(document.order_details[i].price),
                            quantity   |-> document.order_details[i].quantity]]])

CreateOrderSchema_dump(order_data) ==
    [order_details |->
       [i \in 1..Len(order_data.order_details) |->
          [product_id |-> order_data.order_details[i].product_id,
           price      |-> as_string(order_data.order_details[i].price),
           quantity   |-> order_data.order_details[i].quantity]]]

ProductSchema_loads(body) ==
    IF Len(body) = 0 THEN Raise("ValueError", "Invalid json", NoId)
    ELSE IF MissingField(body[1]) # 0
    THEN Raise("ValidationError", "Missing data for required field.", NoId)
    ELSE Ok(body[1])

----------------------------------------------------------------------------
(* The services behind the RPC proxies *)

products_get_products_by_id(c, products_id) == find_order_details_by_id(c, products_id)
products_create(c, product) == create(c, product)
products_delete(c, product_id) == delete(c, product_id)

orders_create_order(os, order_details) ==
    [orders |-> Append(os, [id |-> Len(os) + 1, order_details |-> order_details]),
     res    |-> Ok([id |-> Len(os) + 1])]

\* what the proxy raises in the gateway for an exception raised in the service
RemoteError(res) ==
    IF res.exc = "none" THEN res
    ELSE IF res.exc = "NotFound" THEN [res EXCEPT !.exc = "ProductNotFound"]
    ELSE [res EXCEPT !.exc = "RemoteError"]

----------------------------------------------------------------------------
(* The gateway's handlers, cut at their RPC calls.  A step either ends the  *)
(* request (a Response, or the exception that leaves the handler) or calls  *)
(* a service and waits for the reply.                                       *)

Response(status, body) == Ok([body |-> body, status |-> status])

Respond(response) == [call |-> NoRpc, response |-> response, next |-> "done"]
Rpc(service, method, args) ==
    [call |-> [service |-> service, method |-> method, args |-> args],
     response |-> Ok(None), next |-> "call"]

product_ids(order_data) ==
    [i \in 1..Len(order_data.order_details) |-> order_data.order_details[i].product_id]

\* POST /orders that goes to the Orders service without looking the products up
create_order_unchecked(body) ==
    LET loaded == CreateOrderSchema_loads(body)
    IN  IF loaded.exc = "ValueError"
        THEN Respond(Raise("BadRequest", "Invalid json", NoId))
        ELSE IF loaded.exc # "none" THEN Respond(loaded)
        ELSE Rpc("orders", "create_order", CreateOrderSchema_dump(loaded.value).order_details)

\* POST /orders up to the lookup of the products
create_order(body) ==
    LET loaded == CreateOrderSchema_loads(body)
    IN  IF loaded.exc = "ValueError"
        THEN Respond(Raise("BadRequest", "Invalid json", NoId))
        ELSE IF loaded.exc # "none" THEN Respond(loaded)
        ELSE Rpc("products", "get_products_by_id", product_ids(loaded.value))

\* the comparison left out
missing_product_skipped(unique_product_ids, order_details) == Ok(None)

\* the comparison of the products found with the ids asked for
missing_product(unique_product_ids, order_details) ==
    IF Len(order_details) # Len(unique_product_ids)
    THEN IF \E i \in 1..Len(order_details) : "product_id" \notin DOMAIN order_details[i]
         THEN Raise("KeyError", "product_id", NoId)
         ELSE LET missing_products_id ==
                      {order_details[i].product_id : i \in 1..Len(order_details)}
                  absent == {i \in 1..Len(unique_product_ids) :
                                unique_product_ids[i] \notin missing_products_id}
              IN  IF absent = {} THEN Ok(None)
                  ELSE Raise("ProductNotFound", "Product Id",
                             unique_product_ids[CHOOSE i \in absent : \A j \in absent : i <= j])
    ELSE Ok(None)

\* the Orders service called whatever the lookup replied
create_order_checked_anyway(order_data, reply) ==
    Rpc("orders", "create_order", CreateOrderSchema_dump(order_data).order_details)

\* POST /orders from the lookup's reply to the call of the Orders service
create_order_checked(order_data, reply) ==
    IF reply.exc # "none" THEN Respond(reply)
    ELSE LET missing == missing_product(product_ids(order_data), reply.value)
         IN  IF missing.exc # "none" THEN Respond(missing)
             ELSE Rpc("orders", "create_order",
                      CreateOrderSchema_dump(order_data).order_details)

\* POST /orders from the reply of the Orders service
create_order_created(reply) ==
    IF reply.exc # "none" THEN Respond(reply)
    ELSE Respond(Response(200, [id |-> reply.value.id]))

\* POST /products that sends the document to the Products service unvalidated
create_product_unvalidated(body) ==
    IF Len(body) = 0 THEN Respond(Raise("BadRequest", "Invalid json", NoId))
    ELSE Rpc("products", "create", body[1])

\* POST /products up to the call of the Products service
create_product(body) ==
    LET loaded == ProductSchema_loads(body)
    IN  IF loaded.exc = "ValueError"
        THEN Respond(Raise("BadRequest", "Invalid json", NoId))
        ELSE IF loaded.exc # "none" THEN Respond(loaded)
        ELSE Rpc("products", "create", loaded.value)

create_product_created(product_data, reply) ==
    IF reply.exc # "none" THEN Respond(reply)
    ELSE Respond(Response(200, [id |-> product_data.id]))

\* DELETE /products/<product_id>
delete_product(product_id) == Rpc("products", "delete", product_id)

delete_product_deleted(reply) ==
    IF reply.exc = "ProductNotFound"
    THEN Respond(Response(404, [error |-> "Product not found"]))
    ELSE IF reply.exc # "none" THEN Respond(reply)
    ELSE Respond(Response(200, [id |-> reply.value]))

----------------------------------------------------------------------------
(* Spec: the gateway's workers and the two services on one store *)

RECURSIVE CreateEach(_, _)
CreateEach(c, S) ==
    IF S = {} THEN c
    ELSE LET p == CHOOSE p \in S : TRUE
         IN  CreateEach(create(c, p).keyspace, S \ {p})

\* the stores POST /products can have built before the run: any products, one per id
InitStores ==
    {CreateEach(<<>>, S) : S \in {T \in SUBSET Products : \A p, q \in T : p.id = q.id => p = q}}

Init ==
    /\ client \in InitStores
    /\ last = NoCall
    /\ before = <<>>
    /\ deleted = {}
    /\ workers = [w \in Workers |-> Idle]
    /\ orders = <<>>
    /\ served = 0

\* the worker after a step of its handler
Take(worker, step) ==
    [worker EXCEPT !.pc = step.next, !.call = step.call, !.response = step.response,
                   !.rpcs = IF step.next = "call"
                            THEN Append(@, <<"call", step.call.method>>) ELSE @]

Accept(w, handler, request, step) ==
    /\ workers[w].pc = "idle"
    /\ served < MaxRequests
    /\ served' = served + 1
    /\ workers' = [workers EXCEPT ![w] =
                     Take([Idle EXCEPT !.handler = handler, !.request = request], step)]
    /\ UNCHANGED <<client, orders, last, before, deleted>>

HttpCreateOrder(w) ==
    \E body \in OrderBodies : Accept(w, "create_order", body, create_order(body))

HttpCreateProduct(w) ==
    \E body \in ProductBodies : Accept(w, "create_product", body, create_product(body))

HttpDeleteProduct(w) ==
    \E product_id \in ProductIds :
        Accept(w, "delete_product", product_id, delete_product(product_id))

Calls(w, service, method) ==
    /\ workers[w].pc = "call"
    /\ workers[w].call.service = service
    /\ workers[w].call.method = method

Range(s) == {s[i] : i \in DOMAIN s}

\* the reply reaches the worker that waits for it
Replying(w, res, absent) ==
    workers' = [workers EXCEPT ![w].pc = "reply", ![w].reply = RemoteError(res),
                               ![w].rpcs = Append(@, <<"return", workers[w].call.method>>),
                               ![w].absent = absent]

Reply(w, res) == Replying(w, res, workers[w].absent)

ProductsGetProductsById(w) ==
    /\ Calls(w, "products", "get_products_by_id")
    /\ LET out == products_get_products_by_id(client, workers[w].call.args)
       IN  /\ client' = out.keyspace
           /\ Replying(w, out.res,
                       {id \in Range(workers[w].call.args) : format_key(id) \notin DOMAIN client})
    /\ UNCHANGED <<orders, served, last, before, deleted>>

ProductsCreate(w) ==
    /\ Calls(w, "products", "create")
    /\ LET out == products_create(client, workers[w].call.args)
       IN  /\ client' = out.keyspace
           /\ Reply(w, out.res)
    /\ UNCHANGED <<orders, served, last, before, deleted>>

ProductsDelete(w) ==
    /\ Calls(w, "products", "delete")
    /\ LET out == products_delete(client, workers[w].call.args)
       IN  /\ client' = out.keyspace
           /\ Reply(w, out.res)
    /\ UNCHANGED <<orders, served, last, before, deleted>>

OrdersCreateOrder(w) ==
    /\ Calls(w, "orders", "create_order")
    /\ LET out == orders_create_order(orders, workers[w].call.args)
       IN  /\ orders' = out.orders
           /\ Reply(w, out.res)
    /\ UNCHANGED <<client, served, last, before, deleted>>

\* the Orders service fails and persists nothing
OrdersCreateOrderFails(w) ==
    /\ Calls(w, "orders", "create_order")
    /\ Reply(w, Raise("Exception", "create_order failed", NoId))
    /\ UNCHANGED <<client, orders, served, last, before, deleted>>

Replied(w, handler, method) ==
    /\ workers[w].pc = "reply"
    /\ workers[w].handler = handler
    /\ workers[w].call.method = method

Continue(w, step) ==
    /\ workers' = [workers EXCEPT ![w] = Take(workers[w], step)]
    /\ UNCHANGED <<client, orders, served, last, before, deleted>>

CreateOrderChecked(w) ==
    /\ Replied(w, "create_order", "get_products_by_id")
    /\ Continue(w, create_order_checked(CreateOrderSchema_loads(workers[w].request).value,
                                        workers[w].reply))

CreateOrderCreated(w) ==
    /\ Replied(w, "create_order", "create_order")
    /\ Continue(w, create_order_created(workers[w].reply))

CreateProductCreated(w) ==
    /\ Replied(w, "create_product", "create")
    /\ Continue(w, create_product_created(ProductSchema_loads(workers[w].request).value,
                                          workers[w].reply))

DeleteProductDeleted(w) ==
    /\ Replied(w, "delete_product", "delete")
    /\ Continue(w, delete_product_deleted(workers[w].reply))

\* the response is sent and the worker is free again
Finish(w) ==
    /\ workers[w].pc = "done"
    /\ workers' = [workers EXCEPT ![w] = Idle]
    /\ UNCHANGED <<client, orders, served, last, before, deleted>>

Next ==
    \E w \in Workers :
        \/ HttpCreateOrder(w)
        \/ HttpCreateProduct(w)
        \/ HttpDeleteProduct(w)
        \/ ProductsGetProductsById(w)
        \/ ProductsCreate(w)
        \/ ProductsDelete(w)
        \/ OrdersCreateOrder(w)
        \/ OrdersCreateOrderFails(w)
        \/ CreateOrderChecked(w)
        \/ CreateOrderCreated(w)
        \/ CreateProductCreated(w)
        \/ DeleteProductDeleted(w)
        \/ Finish(w)

Spec == Init /\ [][Next]_vars

----------------------------------------------------------------------------
(* Properties of POST /orders and POST /products, under Spec *)

IsCall(e, method) == e[1] = "call" /\ e[2] = method
IsReturn(e, method) == e[1] = "return" /\ e[2] = method

\* how many times the request of worker w has called create_order
CreateOrderCalls(w) ==
    Cardinality({i \in DOMAIN workers[w].rpcs : IsCall(workers[w].rpcs[i], "create_order")})

\* the ids the request of worker w names, in the order of its order_details
RequestedIds(w) == product_ids(CreateOrderSchema_loads(workers[w].request).value)

ValidOrder(w) ==
    /\ workers[w].handler = "create_order"
    /\ CreateOrderSchema_loads(workers[w].request).exc = "none"

\* C1: a POST /orders request of which at least one product_id had no record
\* in the store when its existence check ran never calls create_order.
C1_NoCreateOrderWhenMissing ==
    \A w \in Workers :
        (workers[w].handler = "create_order" /\ workers[w].absent # {})
            => CreateOrderCalls(w) = 0

\* a finished request of three lines that names an existing product twice and
\* a missing one
C1_Witness ==
    \E w \in Workers :
        /\ ValidOrder(w)
        /\ workers[w].pc = "done"
        /\ Len(RequestedIds(w)) = 3
        /\ workers[w].absent # {}
        /\ \E i, j \in 1..3 : /\ i # j
                              /\ RequestedIds(w)[i] = RequestedIds(w)[j]
                              /\ RequestedIds(w)[i] \notin workers[w].absent
        /\ CreateOrderCalls(w) = 0

\* the step in which the Orders service persists the order of worker w
Persists(w) ==
    /\ workers[w].pc = "call"
    /\ workers[w].call.method = "create_order"
    /\ Len(orders') = Len(orders) + 1

NewOrderIds == {orders'[Len(orders')].order_details[i].product_id :
                    i \in 1..Len(orders'[Len(orders')].order_details)}

\* C2 (as claimed): every product an order references exists in the store at
\* the moment the Orders service persists the order.
C2_ProductsExistWhenPersisted ==
    [][\A w \in Workers :
          Persists(w) => \A id \in NewOrderIds : format_key(id) \in DOMAIN client]_vars

\* C2 (amended): every product an order references existed in the store when
\* the existence check of the request that creates the order ran.
C2_ProductsExistedWhenChecked ==
    [][\A w \in Workers :
          Persists(w) => /\ workers[w].handler = "create_order"
                         /\ <<"return", "get_products_by_id">> \in Range(workers[w].rpcs)
                         /\ NewOrderIds \cap workers[w].absent = {}]_vars

\* an order is persisted while a product it references has been deleted by
\* the other worker's DELETE /products
C2_Witness ==
    \E w, v \in Workers :
        /\ w # v
        /\ workers[w].pc = "reply"
        /\ workers[w].call.method = "create_order"
        /\ workers[w].reply.exc = "none"
        /\ workers[v].handler = "delete_product"
        /\ workers[v].pc \in {"reply", "done"}
        /\ \E i \in DOMAIN workers[w].call.args :
               workers[w].call.args[i].product_id = workers[v].request
        /\ format_key(workers[v].request) \notin DOMAIN client
        /\ Len(orders) = 1

\* the first id of the request of worker w that was absent at its check
FirstMissing(w) ==
    LET ids == RequestedIds(w)
        i   == CHOOSE i \in 1..Len(ids) :
                   /\ ids[i] \in workers[w].absent
                   /\ \A j \in 1..(i - 1) : ids[j] \notin workers[w].absent
    IN  ids[i]

\* C3: a POST /orders request that references at least one product absent from
\* the store fails with ProductNotFound naming the first missing id.
C3_ProductNotFoundNamesFirstMissing ==
    \A w \in Workers :
        (ValidOrder(w) /\ workers[w].pc = "done" /\ workers[w].absent # {})
            => /\ workers[w].response.exc = "ProductNotFound"
               /\ workers[w].response.id = FirstMissing(w)

\* C4: a request calls create_order only after its call of get_products_by_id
\* has returned, and has at most one call in flight.
C4_CheckReturnsBeforeCreateOrder ==
    \A w \in Workers :
        LET rpcs == workers[w].rpcs
        IN  /\ \A i \in DOMAIN rpcs :
                  IsCall(rpcs[i], "create_order")
                      => \E j, k \in 1..(i - 1) :
                             /\ j < k
                             /\ IsCall(rpcs[j], "get_products_by_id")
                             /\ IsReturn(rpcs[k], "get_products_by_id")
            /\ \A i \in DOMAIN rpcs :
                  (rpcs[i][1] = "call" /\ i < Len(rpcs))
                      => IsReturn(rpcs[i + 1], rpcs[i][2])

C4_Witness ==
    \E w \in Workers :
        /\ workers[w].pc = "call"
        /\ workers[w].call.method = "create_order"
        /\ workers[w].rpcs = << <<"call", "get_products_by_id">>,
                                <<"return", "get_products_by_id">>,
                                <<"call", "create_order">> >>

\* C5: a request whose referenced products all exist calls create_order
\* exactly once, with the order_details of the request, and answers with the id
\* that call returned; no request calls create_order more than once.
C5_CreateOrderCalledOnce ==
    \A w \in Workers :
        /\ CreateOrderCalls(w) <= 1
        /\ (workers[w].pc = "call" /\ workers[w].call.method = "create_order")
              => workers[w].call.args = workers[w].request[1].order_details
        /\ (ValidOrder(w) /\ workers[w].pc = "done" /\ workers[w].absent = {})
              => /\ CreateOrderCalls(w) = 1
                 /\ workers[w].reply.exc = "none"
                       => /\ workers[w].response.exc = "none"
                          /\ workers[w].response.value.status = 200
                          /\ workers[w].response.value.body = [id |-> workers[w].reply.value.id]

\* what the schema of the handler makes of the body
Loaded(handler, body) ==
    IF handler = "create_order" THEN CreateOrderSchema_loads(body)
    ELSE ProductSchema_loads(body)

\* C6: POST /orders and POST /products with a body that is not JSON, or that
\* violates the schema, fail with BadRequest and ValidationError in the step
\* that accepts the request: no RPC is issued, the store and the orders stay.
C6_InvalidPayloadFailsBeforeRpc ==
    [][\A w \in Workers :
          (/\ workers[w].pc = "idle"
           /\ workers'[w].pc # "idle"
           /\ workers'[w].handler \in {"create_order", "create_product"}
           /\ Loaded(workers'[w].handler, workers'[w].request).exc # "none")
          => /\ workers'[w].pc = "done"
             /\ workers'[w].rpcs = <<>>
             /\ workers'[w].response.exc =
                    (IF Len(workers'[w].request) = 0 THEN "BadRequest" ELSE "ValidationError")
             /\ client' = client
             /\ orders' = orders]_vars

\* one worker has failed a POST /products on the schema and the other a
\* POST /orders on its JSON, neither with an RPC
C6_Witness ==
    \E w, v \in Workers :
        /\ workers[w].pc = "done"
        /\ workers[w].handler = "create_product"
        /\ workers[w].response.exc = "ValidationError"
        /\ workers[w].rpcs = <<>>
        /\ workers[v].pc = "done"
        /\ workers[v].handler = "create_order"
        /\ workers[v].response.exc = "BadRequest"
        /\ workers[v].rpcs = <<>>

----------------------------------------------------------------------------
(* Properties of the StorageWrapper, under SpecStore *)

\* the positions of ids whose key holds a record in the keyspace c
Stored(c, ids) == {i \in 1..Len(ids) : format_key(ids[i]) \in DOMAIN c}

\* the j-th smallest member of a set of positions
RECURSIVE Nth(_, _)
Nth(S, j) ==
    LET m == CHOOSE m \in S : \A n \in S : m <= n
    IN  IF j = 1 THEN m ELSE Nth(S \ {m}, j - 1)

\* product is what the hash at the key of its id holds, field by field
IsStored(c, product) ==
    /\ format_key(product.id) \in DOMAIN c
    /\ DOMAIN product = Range(ProductFields)
    /\ \A f \in DOMAIN product : EncodeField(f, product[f]) = c[format_key(product.id)][f]

\* C7: find_order_details_by_id, asked for n ids of which k have a record,
\* returns exactly those k products in the order asked, fails with NotFound
\* if and only if k = 0, and leaves the store as it was.
C7_FindReturnsTheStoredProducts ==
    last.op = "find_order_details_by_id"
        => LET hits == Stored(before, last.arg)
               k    == Cardinality(hits)
           IN  /\ client = before
               /\ (last.res.exc = "NotFound") <=> (k = 0)
               /\ k > 0 => /\ last.res.exc = "none"
                           /\ Len(last.res.value) = k
                           /\ \A j \in 1..k :
                                  /\ last.res.value[j].id = last.arg[Nth(hits, j)]
                                  /\ IsStored(before, last.res.value[j])

IsCreate(op, arg, id) == op = "create" /\ arg.id = id
IsDelete(op, arg, id) == op = "delete" /\ arg = id
IsDecrement(op, arg, id) == op = "decrement_stock" /\ arg[1] = id

Gets(c, product) ==
    /\ get(c, product.id).res.exc = "none"
    /\ get(c, product.id).res.value = product

\* C8: after create(p), get(p.id) returns p in all five fields, until p.id is
\* deleted, decremented or created anew.
C8_GetReturnsTheCreatedProduct ==
    [][/\ last'.op = "create" => Gets(client', last'.arg)
       /\ \A p \in Products :
             (/\ Gets(client, p)
              /\ ~IsCreate(last'.op, last'.arg, p.id)
              /\ ~IsDelete(last'.op, last'.arg, p.id)
              /\ ~IsDecrement(last'.op, last'.arg, p.id))
             => Gets(client', p)]_vars

\* a product with a two-byte title and 0 in stock is read back, with a call
\* for the other id in between
C8_Witness ==
    /\ last.op = "get"
    /\ DOMAIN client = {format_key(id) : id \in ProductIds}
    /\ \E p \in Products :
          /\ p.title = <<233>>
          /\ p.in_stock = 0
          /\ p.id # last.arg
          /\ Gets(client, p)
    /\ \E p \in Products : p.in_stock = 11 /\ p.id = last.arg /\ last.res.value = p

\* C9: get and delete of an id that has no record fail with NotFound and
\* leave the store as it was.
C9_NotFoundWithoutRecord ==
    (last.op \in {"get", "delete"} /\ format_key(last.arg) \notin DOMAIN before)
        => /\ last.res.exc = "NotFound"
           /\ last.res.id = last.arg
           /\ client = before

C9_Witness ==
    /\ last.op = "delete"
    /\ format_key(last.arg) \notin DOMAIN before
    /\ last.res.exc = "NotFound"
    /\ before # <<>>
    /\ client = before

NotFoundAt(c, id) ==
    /\ get(c, id).res.exc = "NotFound"
    /\ delete(c, id).res.exc = "NotFound"

\* C10: delete of an existing product removes its record and nothing else and
\* returns 1; get and delete of the id then fail with NotFound until the
\* product is created again.
C10_DeleteRemovesTheRecord ==
    /\ (last.op = "delete" /\ format_key(last.arg) \in DOMAIN before)
          => /\ last.res.exc = "none"
             /\ last.res.value = 1
             /\ DOMAIN client = DOMAIN before \ {format_key(last.arg)}
             /\ \A k \in DOMAIN client : client[k] = before[k]
    /\ \A id \in deleted : NotFoundAt(client, id)

\* the stock the record at key holds in the keyspace c
in_stock(c, key) == BytesToInt(c[key]["in_stock"])

\* C11: decrement_stock(id, amount) on an existing product returns the
\* previous in_stock minus amount, stores that value as the new in_stock and
\* leaves the product's other fields and the other products as they were;
\* with amount 4 it returns 7 from 11 and 3 from 7.
C11_DecrementTakesAmountFromStock ==
    (last.op = "decrement_stock" /\ format_key(last.arg[1]) \in DOMAIN before)
        => LET key == format_key(last.arg[1])
               new == in_stock(before, key) - last.arg[2]
           IN  /\ last.res.exc = "none"
               /\ last.res.value = new
               /\ DOMAIN client = DOMAIN before
               /\ \A k \in DOMAIN client \ {key} : client[k] = before[k]
               /\ DOMAIN client[key] = DOMAIN before[key]
               /\ \A f \in DOMAIN client[key] \ {"in_stock"} : client[key][f] = before[key][f]
               /\ client[key]["in_stock"] = IntToBytes(new)
               /\ in_stock(client, key) = new
               /\ (in_stock(before, key) = 11 /\ last.arg[2] = 4) => last.res.value = 7
               /\ (in_stock(before, key) = 7 /\ last.arg[2] = 4) => last.res.value = 3

\* the second decrement by 4 of a product created with 11 in stock returns 3,
\* with the other product in the store
C11_Witness ==
    /\ last.op = "decrement_stock"
    /\ last.arg[2] = 4
    /\ \E p \in Products :
          /\ p.id = last.arg[1]
          /\ p.in_stock = 11
          /\ IsStored(before, [p EXCEPT !.in_stock = 7])
          /\ IsStored(client, [p EXCEPT !.in_stock = 3])
    /\ last.res.value = 3
    /\ Cardinality(DOMAIN client) = 2

\* C12: whatever create, delete and decrement_stock calls are made, every
\* product in the store (a record with all five fields) has in_stock >= 0.
C12_InStockNeverNegative ==
    \A k \in DOMAIN client : MissingField(client[k]) = 0 => in_stock(client, k) >= 0

\* C13: decrement_stock for an id that has no record fails with NotFound and
\* leaves the store as it was, with no record for that id.
C13_DecrementOfMissingIdFails ==
    (last.op = "decrement_stock" /\ format_key(last.arg[1]) \notin DOMAIN before)
        => /\ last.res.exc = "NotFound"
           /\ client = before
           /\ format_key(last.arg[1]) \notin DOMAIN client

\* C18: create is an upsert, idempotent by id: after create(q) the record at
\* q.id is q whatever was there, so that get(q.id) returns q, a second create(q)
\* changes nothing, and no other record has changed.
C18_CreateIsAnIdempotentUpsert ==
    last.op = "create"
        => LET q   == last.arg
               key == format_key(q.id)
           IN  /\ last.res.exc = "none"
               /\ IsStored(client, q)
               /\ DOMAIN client[key] = Range(ProductFields)
               /\ Gets(client, q)
               /\ create(client, q).keyspace = client
               /\ DOMAIN client = DOMAIN before \cup {key}
               /\ \A k \in DOMAIN client \ {key} : client[k] = before[k]

\* create replaces a product that differs in title and stock, with the other
\* product in the store
C18_Witness ==
    /\ last.op = "create"
    /\ Cardinality(DOMAIN client) = 2
    /\ \E p \in Products :
          /\ p.id = last.arg.id
          /\ p.title # last.arg.title
          /\ p.in_stock # last.arg.in_stock
          /\ IsStored(before, p)
    /\ Gets(client, last.arg)

----------------------------------------------------------------------------
(* The count comparison of _create_order, under Spec *)

\* the existence check of the request of worker w has been made and evaluated
Checked(w) ==
    /\ ValidOrder(w)
    /\ ~(workers[w].call.method = "get_products_by_id" /\ workers[w].pc \in {"call", "reply"})

\* C19: a valid POST /orders reaches create_order if and only if every
\* product its order_details reference existed when the check ran, whether or
\* not a product_id is named on several lines.
C19_CreateOrderIffAllProductsExist ==
    \A w \in Workers :
        Checked(w) => (CreateOrderCalls(w) >= 1 <=> workers[w].absent = {})

----------------------------------------------------------------------------
(* SpecDecrement: the workers of the Products service call decrement_stock  *)
(* concurrently, once each, on StorageWrappers that share one Redis client. *)
(* `before` is the keyspace before the calls.                               *)

DecrementAmounts == {1, 4}

InitDecrement ==
    /\ client \in InitStores
    /\ before = client
    /\ last = NoCall
    /\ deleted = {}
    /\ workers = [w \in Workers |-> Idle]
    /\ orders = <<>>
    /\ served = 0

\* the worker sends the one command of decrement_stock
DecrementStockCall(w) ==
    /\ workers[w].pc = "idle"
    /\ \E product_id \in ProductIds, amount \in DecrementAmounts :
          workers' = [workers EXCEPT ![w] =
              [Idle EXCEPT !.pc = "call", !.handler = "decrement_stock",
                           !.request = <<product_id, amount>>,
                           !.call = [service |-> "redis", method |-> "hincrby",
                                     args |-> <<format_key(product_id), "in_stock", -amount>>]]]
    /\ UNCHANGED <<client, last, before, deleted, orders, served>>

\* Redis runs the command: commands run one at a time, each as a whole
RedisHincrby(w) ==
    /\ workers[w].pc = "call"
    /\ workers[w].handler = "decrement_stock"
    /\ LET out == decrement_stock(client, workers[w].request[1], workers[w].request[2])
       IN  /\ client' = out.keyspace
           /\ workers' = [workers EXCEPT ![w].pc = "reply", ![w].reply = out.res]
    /\ UNCHANGED <<last, before, deleted, orders, served>>

\* decrement_stock returns what the command replied
DecrementStockReturn(w) ==
    /\ workers[w].pc = "reply"
    /\ workers[w].handler = "decrement_stock"
    /\ workers' = [workers EXCEPT ![w].pc = "done", ![w].response = workers[w].reply]
    /\ UNCHANGED <<client, last, before, deleted, orders, served>>

NextDecrement ==
    \E w \in Workers :
        \/ DecrementStockCall(w)
        \/ RedisHincrby(w)
        \/ DecrementStockReturn(w)

SpecDecrement == InitDecrement /\ [][NextDecrement]_vars

\* the workers whose decrement of product_id Redis has run
Decremented(product_id) ==
    {w \in Workers : /\ workers[w].handler = "decrement_stock"
                     /\ workers[w].request[1] = product_id
                     /\ workers[w].pc \in {"reply", "done"}}

\* the sum of the amounts of the first k workers of a sequence of workers
RECURSIVE AmountsOf(_, _)
AmountsOf(order, k) ==
    IF k = 0 THEN 0 ELSE AmountsOf(order, k - 1) + workers[order[k]].request[2]

\* the orders in which the workers of W can have run
SerialOrders(W) ==
    {order \in [1..Cardinality(W) -> W] :
        \A i, j \in 1..Cardinality(W) : order[i] = order[j] => i = j}

\* C14: for every product that existed before the calls, the stock is the
\* initial stock minus the amounts of all the decrements run so far, and the
\* values the calls return are the successive stocks of one serial order of
\* those calls.
C14_NoDecrementIsLost ==
    \A product_id \in ProductIds :
        format_key(product_id) \in DOMAIN before
            => LET key  == format_key(product_id)
                   W    == Decremented(product_id)
                   n    == Cardinality(W)
               IN  \E order \in SerialOrders(W) :
                       /\ in_stock(client, key) = in_stock(before, key) - AmountsOf(order, n)
                       /\ \A k \in 1..n :
                              /\ workers[order[k]].reply.exc = "none"
                              /\ workers[order[k]].reply.value =
                                     in_stock(before, key) - AmountsOf(order, k)

\* every worker has decremented the same product, by different amounts, and
\* has its value back
C14_Witness ==
    \E product_id \in ProductIds :
        /\ format_key(product_id) \in DOMAIN before
        /\ in_stock(before, format_key(product_id)) = 11
        /\ Decremented(product_id) = Workers
        /\ \A w \in Workers : workers[w].pc = "done"
        /\ \E w, v \in Workers : workers[w].request[2] # workers[v].request[2]
        /\ \E w, v \in Workers : workers[w].response.value > workers[v].response.value

----------------------------------------------------------------------------
(* SpecList: list() is consumed by a worker, one SCAN batch at a time,      *)
(* while create, delete and decrement_stock are called on the same store.   *)
(* `last` is the last call made, list() included.                           *)

\* count=10 of the scan
ScanCount == 10

\* a Python value with its type: '0' != 0
PyStr(text) == [value |-> text, type |-> "str"]
PyInt(n) == [value |-> n, type |-> "int"]
ne(a, b) == a.type # b.type \/ a.value # b.value

\* the number a cursor stands for when it is sent to Redis
CursorOf(cursor) == IF cursor.type = "str" THEN DigitsToNat(cursor.value) ELSE cursor.value

\* MATCH with a glob pattern that ends in its only '*', as 'products:*' does
Matches(key, pattern) ==
    LET prefix == SubSeq(pattern, 1, Len(pattern) - 1)
    IN  Len(key) >= Len(prefix) /\ SubSeq(key, 1, Len(prefix)) = prefix

\* the keys of the keyspace in the order of the table Redis walks
RECURSIVE ScanOrder(_)
ScanOrder(keys) ==
    IF keys = {} THEN <<>>
    ELSE LET key == CHOOSE key \in keys : TRUE
         IN  <<key>> \o ScanOrder(keys \ {key})

\* SCAN: count is a hint, Redis returns what it finds in the part of the table
\* it walks from the cursor, and cursor 0 once the table has been walked
scan(c, cursor, match, count) ==
    LET table == ScanOrder(DOMAIN c)
        rest  == Len(table) - CursorOf(cursor)
        upto  == IF rest < count THEN rest ELSE count
    IN  IF rest = 0 THEN {[keys |-> <<>>, cursor |-> PyInt(0)]}
        ELSE {[keys   |-> SelectSeq(SubSeq(table, CursorOf(cursor) + 1, CursorOf(cursor) + n),
                                    LAMBDA key : Matches(key, match)),
               cursor |-> PyInt(IF n = rest THEN 0 ELSE CursorOf(cursor) + n)] : n \in 1..upto}

\* the products of keys[i..] after those yielded; a KeyError of _from_hash
\* ends the generator
RECURSIVE list_yield(_, _, _, _)
list_yield(c, keys, i, yielded) ==
    IF i > Len(keys) THEN Ok(yielded)
    ELSE LET p == from_hash(hgetall(c, keys[i]))
         IN  IF p.exc # "none" THEN p
             ELSE list_yield(c, keys, i + 1, Append(yielded, p.value))

Listing == \E w \in Workers : workers[w].handler = "list"

\* list() is called and consumed up to its first scan
ListStart(w) ==
    /\ ~Listing
    /\ workers[w].pc = "idle"
    /\ workers' = [workers EXCEPT ![w] =
           [Idle EXCEPT !.pc = "call", !.handler = "list",
                        !.call = [service |-> "redis", method |-> "scan", args |-> PyStr(<<48>>)],
                        !.reply = Ok(<<>>)]]
    /\ last' = [res |-> Ok(None), op |-> "list", arg |-> NoId]
    /\ before' = client
    /\ UNCHANGED <<client, deleted, orders, served>>

\* one pass of the loop: a scan, and the products of its keys are yielded
ListScan(w) ==
    /\ workers[w].pc = "call"
    /\ workers[w].handler = "list"
    /\ \E scanned \in scan(client, workers[w].call.args, format_key(<<42>>), ScanCount) :
          LET yielded == list_yield(client, scanned.keys, 1, workers[w].reply.value)
          IN  workers' = [workers EXCEPT ![w] =
                 IF yielded.exc # "none"
                 THEN [@ EXCEPT !.pc = "done", !.response = yielded]
                 ELSE IF ne(scanned.cursor, PyInt(0))
                 THEN [@ EXCEPT !.call.args = scanned.cursor, !.reply = yielded]
                 ELSE [@ EXCEPT !.pc = "done", !.call.args = scanned.cursor,
                                !.reply = yielded, !.response = yielded]]
    /\ UNCHANGED <<client, last, before, deleted, orders, served>>

NextList ==
    \/ StoreCreate
    \/ StoreDelete
    \/ StoreDecrement
    \/ \E w \in Workers : ListStart(w) \/ ListScan(w) \/ Finish(w)

SpecList == InitStore /\ [][NextList]_vars

\* C17: a list() consumed to its end with no call made on the store since it
\* began has yielded the products stored: every record of the store is one of
\* the products yielded, and every product yielded is a record of the store.
C17_ListYieldsTheStoredProducts ==
    \A w \in Workers :
        (workers[w].handler = "list" /\ workers[w].pc = "done" /\ last.op = "list")
            => /\ workers[w].response.exc = "none"
               /\ \A i \in DOMAIN workers[w].response.value :
                      IsStored(client, workers[w].response.value[i])
               /\ \A key \in DOMAIN client :
                      \E i \in DOMAIN workers[w].response.value :
                          format_key(workers[w].response.value[i].id) = key

----------------------------------------------------------------------------
(* SpecOrders: GET /orders/<order_id> and GET /orders, with DELETE          *)
(* /products/<product_id> from other clients, on orders that POST /orders   *)
(* has created.  `before` is the store before the requests: no request of   *)
(* this specification changes a record, DELETE removes records.             *)

\* the orders service: what create_order persisted, by id and by page
orders_get_order(os, order_id) ==
    IF \E i \in DOMAIN os : os[i].id = order_id
    THEN Ok(os[CHOOSE i \in DOMAIN os : os[i].id = order_id])
    ELSE Raise("NotFound", "Order with id not found", NoId)

orders_list_orders(os, page, limit) ==
    Ok(SubSeq(os, (page - 1) * limit + 1,
              IF page * limit < Len(os) THEN page * limit ELSE Len(os)))

\* what the orders proxy raises in the gateway for an exception raised in the service
OrdersRemoteError(res) ==
    IF res.exc = "none" THEN res
    ELSE IF res.exc = "NotFound" THEN [res EXCEPT !.exc = "OrderNotFound"]
    ELSE [res EXCEPT !.exc = "RemoteError"]

\* config['PRODUCT_IMAGE_ROOT'], here 'img'
image_root == <<105, 109, 103>>

\* the product id alone, without root or extension
image_bare(root, product_id) == product_id

\* '{}/{}.jpg'.format(image_root, product_id)
image(root, product_id) == root \o <<47>> \o product_id \o <<46, 106, 112, 103>>

\* the fields of a document that a schema declares
Only(document, fields) == [f \in DOMAIN document \cap fields |-> document[f]]

GetOrderSchema_dumps(order) ==
    [id |-> order.id,
     order_details |->
        [i \in 1..Len(order.order_details) |->
            LET item == Only(order.order_details[i],
                             {"product_id", "price", "quantity", "image", "product"})
            IN  [f \in DOMAIN item |->
                    IF f = "product" THEN Only(item[f], Range(ProductFields)) ELSE item[f]]]]

GetOrderSchema_many_dumps(os) == [i \in 1..Len(os) |-> GetOrderSchema_dumps(os[i])]

\* GET /orders/<order_id> up to the fetch of the order
get_order(order_id) == Rpc("orders", "get_order", order_id)

\* from the order fetched to the lookup of its products; the order is kept
\* in the worker's response until the response is made
get_order_fetched(reply) ==
    IF reply.exc # "none" THEN Respond(reply)
    ELSE [call |-> [service |-> "products", method |-> "get_products_by_id",
                    args |-> product_ids(reply.value)],
          response |-> reply, next |-> "call"]

\* the enrichment that leaves out the lines whose product was not found
get_order_enriched_partly(order, reply) ==
    IF reply.exc # "none" THEN Respond(reply)
    ELSE LET products_data == reply.value
             found(product_id) == \E j \in DOMAIN products_data : products_data[j].id = product_id
         IN  Respond(Response(200, GetOrderSchema_dumps(
                 [order EXCEPT !.order_details =
                     [i \in DOMAIN order.order_details |->
                         IF found(order.order_details[i].product_id)
                         THEN [f \in DOMAIN order.order_details[i] \cup {"product", "image"} |->
                                 IF f = "product"
                                 THEN products_data[CHOOSE j \in DOMAIN products_data :
                                          products_data[j].id = order.order_details[i].product_id]
                                 ELSE IF f = "image"
                                 THEN image(image_root, order.order_details[i].product_id)
                                 ELSE order.order_details[i][f]]
                         ELSE order.order_details[i]]])))

\* from the products found to the response: product_map[product_id] raises
\* KeyError for the first line whose product is not among them
get_order_enriched(order, reply) ==
    IF reply.exc # "none" THEN Respond(reply)
    ELSE LET products_data == reply.value
             \* the last product of an id is the one the map keeps
             product_map(product_id) ==
                 products_data[CHOOSE j \in DOMAIN products_data :
                     /\ products_data[j].id = product_id
                     /\ \A k \in DOMAIN products_data :
                            products_data[k].id = product_id => k <= j]
             mapped == {products_data[j].id : j \in DOMAIN products_data}
             misses == {i \in DOMAIN order.order_details :
                           order.order_details[i].product_id \notin mapped}
         IN  IF misses # {}
             THEN Respond(Raise("KeyError", "product_id",
                     order.order_details[CHOOSE i \in misses : \A j \in misses : i <= j].product_id))
             ELSE Respond(Response(200, GetOrderSchema_dumps(
                     [order EXCEPT !.order_details =
                         [i \in DOMAIN order.order_details |->
                             [f \in DOMAIN order.order_details[i] \cup {"product", "image"} |->
                                 IF f = "product"
                                 THEN product_map(order.order_details[i].product_id)
                                 ELSE IF f = "image"
                                 THEN image(image_root, order.order_details[i].product_id)
                                 ELSE order.order_details[i][f]]]])))

\* request.args.get(name, default=default): the text of the parameter, a str
args_get(args, name, default) ==
    IF name \in DOMAIN args THEN PyStr(args[name]) ELSE default

\* max and min of two Python values: an int and a str do not compare
max(a, b) ==
    IF a.type # b.type THEN Raise("TypeError", "'>' not supported", NoId)
    ELSE Ok(IF b.value > a.value THEN b ELSE a)

min(a, b) ==
    IF a.type # b.type THEN Raise("TypeError", "'<' not supported", NoId)
    ELSE Ok(IF b.value < a.value THEN b ELSE a)

\* GET /orders up to the call of the orders service
get_orders(args) ==
    LET page  == max(PyInt(1), args_get(args, "page", PyInt(1)))
        limit == min(PyInt(10), args_get(args, "limit", PyInt(10)))
    IN  IF page.exc # "none" THEN Respond(page)
        ELSE IF limit.exc # "none" THEN Respond(limit)
        ELSE Rpc("orders", "list_orders", <<page.value.value, limit.value.value>>)

get_orders_listed(reply) ==
    IF reply.exc # "none" THEN Respond(reply)
    ELSE Respond(Response(200, GetOrderSchema_many_dumps(reply.value)))

\* the query strings: page and limit, each absent or given as text
\* ('0' and '2' for page, '50' and '5' for limit)
QueryArgs ==
    {[n \in {} |-> <<>>]}
        \cup {[n \in {"page"} |-> page] : page \in {<<48>>, <<50>>}}
        \cup {[n \in {"limit"} |-> limit] : limit \in {<<53, 48>>, <<53>>}}
        \cup {[n \in {"page", "limit"} |-> IF n = "page" THEN <<48>> ELSE <<53, 48>>]}

OrderIds == {1, 2}

\* the orders POST /orders can have created before the run: none, or one
\* order with a line for each id of a sequence of ids
InitOrders ==
    {<<>>} \cup
    {orders_create_order(<<>>,
        CreateOrderSchema_dump([order_details |->
            [i \in 1..Len(ids) |->
                [product_id |-> ids[i], price |-> Decimal("5.99"), quantity |-> 1]]]).order_details).orders :
     ids \in IdSeqs \ {<<>>}}

InitGets ==
    /\ client \in InitStores
    /\ before = client
    /\ orders \in InitOrders
    /\ last = NoCall
    /\ deleted = {}
    /\ workers = [w \in Workers |-> Idle]
    /\ served = 0

HttpGetOrder(w) ==
    \E order_id \in OrderIds : Accept(w, "get_order", order_id, get_order(order_id))

HttpGetOrders(w) ==
    \E args \in QueryArgs : Accept(w, "get_orders", args, get_orders(args))

\* the reply of the orders service reaches the worker that waits for it
OrdersReply(w, res) ==
    /\ workers' = [workers EXCEPT ![w].pc = "reply", ![w].reply = OrdersRemoteError(res),
                                  ![w].rpcs = Append(@, <<"return", workers[w].call.method>>)]
    /\ UNCHANGED <<client, orders, served, last, before, deleted>>

OrdersGetOrder(w) ==
    /\ Calls(w, "orders", "get_order")
    /\ OrdersReply(w, orders_get_order(orders, workers[w].call.args))

OrdersListOrders(w) ==
    /\ Calls(w, "orders", "list_orders")
    /\ OrdersReply(w, orders_list_orders(orders, workers[w].call.args[1], workers[w].call.args[2]))

GetOrderFetched(w) ==
    /\ Replied(w, "get_order", "get_order")
    /\ Continue(w, get_order_fetched(workers[w].reply))

GetOrderEnriched(w) ==
    /\ Replied(w, "get_order", "get_products_by_id")
    /\ Continue(w, get_order_enriched(workers[w].response.value, workers[w].reply))

GetOrdersListed(w) ==
    /\ Replied(w, "get_orders", "list_orders")
    /\ Continue(w, get_orders_listed(workers[w].reply))

NextGets ==
    \E w \in Workers :
        \/ HttpGetOrder(w)
        \/ HttpGetOrders(w)
        \/ HttpDeleteProduct(w)
        \/ OrdersGetOrder(w)
        \/ OrdersListOrders(w)
        \/ ProductsGetProductsById(w)
        \/ ProductsDelete(w)
        \/ GetOrderFetched(w)
        \/ GetOrderEnriched(w)
        \/ GetOrdersListed(w)
        \/ DeleteProductDeleted(w)
        \/ Finish(w)

SpecOrders == InitGets /\ [][NextGets]_vars

----------------------------------------------------------------------------
(* Properties of GET /orders/<order_id> and GET /orders, under SpecOrders *)

\* the order the request of worker w asks for, as the orders service holds it
Persisted(w) == orders_get_order(orders, workers[w].request)

\* the lookup of the products of the request of worker w has returned
LookedUp(w) == <<"return", "get_products_by_id">> \in Range(workers[w].rpcs)

\* C15: GET /orders/<order_id> of an existing order whose products were all in
\* the store at the lookup fetches the order, then looks the products up, and
\* returns the order's lines in their order, each with the stored record of
\* its product and the image '<image_root>/<product_id>.jpg'; no step of the
\* request changes the store or the orders.
C15_GetOrderReturnsTheEnrichedOrder ==
    [][\A w \in Workers :
          /\ (/\ workers[w] # workers'[w]
              /\ "get_order" \in {workers[w].handler, workers'[w].handler})
                => (client' = client /\ orders' = orders)
          /\ (/\ workers[w].handler = "get_order"
              /\ workers[w].pc = "reply"
              /\ workers'[w].pc = "done"
              /\ Persisted(w).exc = "none"
              /\ LookedUp(w)
              /\ workers[w].absent = {})
                => LET order == Persisted(w).value
                       body  == workers'[w].response.value.body
                   IN  /\ workers[w].rpcs = << <<"call", "get_order">>,
                                               <<"return", "get_order">>,
                                               <<"call", "get_products_by_id">>,
                                               <<"return", "get_products_by_id">> >>
                       /\ workers'[w].response.exc = "none"
                       /\ workers'[w].response.value.status = 200
                       /\ body.id = order.id
                       /\ Len(body.order_details) = Len(order.order_details)
                       /\ \A i \in DOMAIN order.order_details :
                              LET item == order.order_details[i]
                                  line == body.order_details[i]
                              IN  /\ DOMAIN line = DOMAIN item \cup {"product", "image"}
                                  /\ \A f \in DOMAIN item : line[f] = item[f]
                                  /\ line.product.id = item.product_id
                                  /\ IsStored(before, line.product)
                                  /\ line.image = <<105, 109, 103, 47>> \o item.product_id
                                                      \o <<46, 106, 112, 103>>]_vars

\* an order of three lines over two products has been returned enriched
C15_Witness ==
    \E w \in Workers :
        /\ workers[w].handler = "get_order"
        /\ workers[w].pc = "done"
        /\ workers[w].response.exc = "none"
        /\ Len(workers[w].response.value.body.order_details) = 3
        /\ \E i, j \in 1..3 :
              /\ workers[w].response.value.body.order_details[i].product.id = <<97>>
              /\ workers[w].response.value.body.order_details[j].product.id = <<98>>
              /\ workers[w].response.value.body.order_details[j].image =
                     <<105, 109, 103, 47, 98, 46, 106, 112, 103>>

\* the number a query parameter of the request of worker w gives, or the default
Given(w, name, default) ==
    IF name \in DOMAIN workers[w].request THEN DigitsToNat(workers[w].request[name])
    ELSE default

\* C16: every GET /orders calls list_orders exactly once, with page =
\* max(1, page) and limit = min(10, limit), page 1 and limit 10 when absent.
C16_ListOrdersCalledWithClampedPage ==
    \A w \in Workers :
        workers[w].handler = "get_orders"
            => LET calls == {i \in DOMAIN workers[w].rpcs :
                                IsCall(workers[w].rpcs[i], "list_orders")}
                   page  == Given(w, "page", 1)
                   limit == Given(w, "limit", 10)
               IN  /\ Cardinality(calls) <= 1
                   /\ workers[w].pc = "done" => Cardinality(calls) = 1
                   /\ (workers[w].pc = "call" /\ workers[w].call.method = "list_orders")
                         => /\ workers[w].call.args[1] = (IF page < 1 THEN 1 ELSE page)
                            /\ workers[w].call.args[2] = (IF limit > 10 THEN 10 ELSE limit)

\* C20: GET /orders/<order_id> returns an order only with a product and an
\* image on every one of its lines; when a product of the order was absent
\* from the store at the lookup, the request ends in an error.
C20_NoPartiallyEnrichedOrder ==
    \A w \in Workers :
        (workers[w].handler = "get_order" /\ workers[w].pc = "done")
            => /\ (LookedUp(w) /\ workers[w].absent # {}) => workers[w].response.exc # "none"
               /\ workers[w].response.exc = "none"
                     => LET body == workers[w].response.value.body
                        IN  /\ Len(body.order_details) = Len(Persisted(w).value.order_details)
                            /\ \A i \in DOMAIN body.order_details :
                                   {"product", "image"} \subseteq DOMAIN body.order_details[i]

\* the lookup found one product of the order and missed another, and the
\* request ended with the KeyError of the map
C20_Witness ==
    \E w \in Workers :
        /\ workers[w].handler = "get_order"
        /\ workers[w].pc = "done"
        /\ LookedUp(w)
        /\ workers[w].absent # {}
        /\ \E i \in DOMAIN Persisted(w).value.order_details :
               Persisted(w).value.order_details[i].product_id \notin workers[w].absent
        /\ workers[w].response.exc = "KeyError"
        /\ workers[w].response.id \in workers[w].absent

====
